---------------------------- MODULE Spec2Model ----------------------------
(***************************************************************************)
(* Model of streamlit_app.py: the CO2 emissions dashboard.                 *)
(*                                                                         *)
(* A pandas DataFrame is a sequence of records.  Every record carries the  *)
(* row's index label in the field idx, because pandas keeps the labels     *)
(* through boolean filters and sorts and aligns on them in assignments.    *)
(* Floating point quotients are kept exact, as records [num, den], with    *)
(* the values NaN and Inf that a float division by zero produces.          *)
(***************************************************************************)
EXTENDS Integers, Sequences, FiniteSets

(***************************************************************************)
(* Bounds of the model.                                                    *)
(***************************************************************************)
MaxRows == 3        \* rows of an emissions table
MaxCo2 == 1         \* largest co2 value of a row
TopCountries == 11  \* countries of the tables that overflow the Top 10
MaxCsvRows == 2     \* rows of a csv file
MaxCols == 4        \* columns of a csv file

(***************************************************************************)
(* Program constants.                                                      *)
(***************************************************************************)
HeadN == 10                        \* .head(10)
RangeDefaultLo == 1960             \* value=(1960, max_year)
anos_destacados == <<1751, 1851, 1951, 2000, 2024>>
Iso3Len == 3                       \* df["code"].str.len() == 3

(***************************************************************************)
(* Names.  Strings have no order in TLA+, so the alphabetical order that   *)
(* sorted() and groupby() use is given by these sorted lists.              *)
(***************************************************************************)
AllCountries == <<"Brazil", "C01", "C02", "C03", "C04", "C05", "C06", "C07",
                  "C08", "C09", "C10", "C11", "C12", "China", "India">>
AllCodes == <<"BRA", "C01", "C02", "C03", "C04", "C05", "C06", "C07",
              "C08", "C09", "C10", "C11", "C12", "CHN", "HKG", "IND">>

\* a float quotient is [num, den]; a zero den is what a float division by
\* zero gives: nan for 0/0, inf for x/0
NaN == [num |-> 0, den |-> 0]
Inf == [num |-> 1, den |-> 0]

VARIABLES
    csv,              \* the file at csv_path: [exists, header, rows]
    na_as_text,       \* whether astype(str) turns a missing value into "nan"
    cache,            \* st.cache_data: "empty" or the memoized table
    load_out,         \* outcome of the last load_emissions call
    df_co2,           \* the loaded table
    preset, year,     \* sidebar widgets
    selected, year_range, metric,        \* comparison tab widgets
    selected_rank, year_range_rank,      \* ranking tab widgets
    fig_map, df_year, fig_comp, fig_top, fig_global, fig_bump, fig_lorenz,
    call              \* a direct evaluation of a range filter

loadVars == <<csv, na_as_text, cache, load_out>>
widgetVars == <<preset, year, selected, year_range, metric,
                selected_rank, year_range_rank>>
figVars == <<fig_map, df_year, fig_comp, fig_top, fig_global, fig_bump,
             fig_lorenz>>
vars == <<loadVars, df_co2, widgetVars, figVars, call>>

(***************************************************************************)
(* Sequence helpers.                                                       *)
(***************************************************************************)
Range(s) == {s[i] : i \in 1..Len(s)}

Min2(a, b) == IF a <= b THEN a ELSE b

RECURSIVE SumCo2(_)
SumCo2(df) == IF df = <<>> THEN 0 ELSE Head(df).co2 + SumCo2(Tail(df))

\* DataFrame.head(n)
HeadRows(df, n) == SubSeq(df, 1, Min2(n, Len(df)))

\* reset of the index to 0..n-1 (groupby(..., as_index=False))
RangeIndex(rows) ==
    [i \in 1..Len(rows) |-> [rows[i] EXCEPT !.idx = i - 1]]

\* insertion of r into a list sorted by co2, after the rows it ties with
RECURSIVE InsertAsc(_, _)
InsertAsc(r, s) ==
    IF s = <<>> THEN <<r>>
    ELSE IF r.co2 < Head(s).co2 THEN <<r>> \o s
    ELSE <<Head(s)>> \o InsertAsc(r, Tail(s))

RECURSIVE InsertDesc(_, _)
InsertDesc(r, s) ==
    IF s = <<>> THEN <<r>>
    ELSE IF r.co2 > Head(s).co2 THEN <<r>> \o s
    ELSE <<Head(s)>> \o InsertDesc(r, Tail(s))

\* sort_values("co2"): stable on tables of this size
RECURSIVE SortAsc(_)
SortAsc(df) ==
    IF df = <<>> THEN <<>>
    ELSE InsertAsc(df[Len(df)], SortAsc(SubSeq(df, 1, Len(df) - 1)))

\* sort_values("co2", ascending=False)
RECURSIVE SortDesc(_)
SortDesc(df) ==
    IF df = <<>> THEN <<>>
    ELSE InsertDesc(df[Len(df)], SortDesc(SubSeq(df, 1, Len(df) - 1)))

\* float division of two numbers
FloatDiv(a, b) ==
    IF b # 0 THEN [num |-> a, den |-> b]
    ELSE IF a = 0 THEN NaN ELSE Inf

IsNaN(q) == q.den = 0 /\ q.num = 0
IsFinite(q) == q.den # 0

(***************************************************************************)
(* groupby(...).agg({"co2": "sum"}): one row per key, keys in sorted       *)
(* order, a fresh index.                                                   *)
(***************************************************************************)
RowsOfYear(df, y) == SelectSeq(df, LAMBDA r : r.year = y)

GroupByCountry(df) ==
    LET cs == {df[i].country : i \in 1..Len(df)}
        present == SelectSeq(AllCountries, LAMBDA c : c \in cs)
    IN  [i \in 1..Len(present) |->
            [idx |-> i - 1, country |-> present[i],
             co2 |-> SumCo2(SelectSeq(df,
                        LAMBDA r : r.country = present[i]))]]

RECURSIVE SortedPairs(_, _)
SortedPairs(cs, ps) ==
    IF cs = <<>> THEN <<>>
    ELSE LET codes == SelectSeq(AllCodes, LAMBDA k : <<Head(cs), k>> \in ps)
         IN  [i \in 1..Len(codes) |-> <<Head(cs), codes[i]>>]
             \o SortedPairs(Tail(cs), ps)

\* the (country, code) pairs of df, sorted
PresentPairs(df) ==
    LET cs == {df[i].country : i \in 1..Len(df)}
        ps == {<<df[i].country, df[i].code>> : i \in 1..Len(df)}
    IN  SortedPairs(SelectSeq(AllCountries, LAMBDA c : c \in cs), ps)

\* a grouping that keeps the first row of each group instead of the sum
GroupByCountryCodeFirst(df) ==
    LET present == PresentPairs(df)
    IN  [i \in 1..Len(present) |->
            [idx |-> i - 1, country |-> present[i][1],
             code |-> present[i][2],
             co2 |-> Head(SelectSeq(df,
                        LAMBDA r : r.country = present[i][1]
                                   /\ r.code = present[i][2])).co2]]

GroupByCountryCode(df) ==
    LET present == PresentPairs(df)
    IN  [i \in 1..Len(present) |->
            [idx |-> i - 1, country |-> present[i][1],
             code |-> present[i][2],
             co2 |-> SumCo2(SelectSeq(df,
                        LAMBDA r : r.country = present[i][1]
                                   /\ r.code = present[i][2]))]]

DataYears(df) == {df[i].year : i \in 1..Len(df)}

RECURSIVE SortedYears(_)
SortedYears(S) ==
    IF S = {} THEN <<>>
    ELSE LET m == CHOOSE y \in S : \A z \in S : y <= z
         IN  <<m>> \o SortedYears(S \ {m})

GroupByYear(df) ==
    LET ys == SortedYears(DataYears(df))
    IN  [i \in 1..Len(ys) |->
            [idx |-> i - 1, year |-> ys[i],
             co2 |-> SumCo2(RowsOfYear(df, ys[i]))]]

RECURSIVE ConcatYears(_, _)
ConcatYears(df, ys) ==
    IF ys = <<>> THEN <<>>
    ELSE LET g == GroupByCountry(RowsOfYear(df, Head(ys)))
         IN  [i \in 1..Len(g) |->
                 [idx |-> 0, year |-> Head(ys), country |-> g[i].country,
                  co2 |-> g[i].co2]]
             \o ConcatYears(df, Tail(ys))

GroupByYearCountry(df) ==
    RangeIndex(ConcatYears(df, SortedYears(DataYears(df))))


(***************************************************************************)
(* load_emissions.  A csv file is a header of distinct column names and    *)
(* rows giving a cell for every column name; read_csv keeps the cells of   *)
(* the header's columns.  A text is a sequence of characters; a cell is    *)
(* [na, text] or [na, val], na for a missing value.                        *)
(***************************************************************************)
ColNames == {"Entity", "Code", "Year", "emissions", "other"}

\* cells that read_csv reads as missing, among the texts of the model
NaTexts == {<<>>, <<"n", "a", "n">>}

CodeTexts == {<<>>, <<"n", "a", "n">>, <<"u", "s", "a">>, <<"A", "S", "I", "A">>}

Missing == [na |-> TRUE, text |-> <<>>]

\* read_csv of a text cell
ReadText(t) == IF t \in NaTexts THEN Missing ELSE [na |-> FALSE, text |-> t]

\* str.upper() of one character
UpperChar(ch) ==
    CASE ch = "a" -> "A" [] ch = "n" -> "N" [] ch = "s" -> "S"
      [] ch = "u" -> "U" [] OTHER -> ch

Upper(t) == [i \in 1..Len(t) |-> UpperChar(t[i])]

\* astype(str): a missing value becomes the text "nan" under the object
\* dtype and stays missing under the string dtype
AsTypeStr(cell, as_text) ==
    IF cell.na
    THEN IF as_text THEN [na |-> FALSE, text |-> <<"n", "a", "n">>] ELSE cell
    ELSE cell

\* .str.upper(): missing stays missing
StrUpper(cell) == IF cell.na THEN cell ELSE [cell EXCEPT !.text = Upper(cell.text)]

\* .str.len() == 3: the length of a missing value is missing, never 3
StrLenIs3(cell) == ~cell.na /\ Len(cell.text) = Iso3Len

\* columns={"Entity": "country", "Code": "code", "Year": "year"}
StdNames == [Entity |-> "country", Code |-> "code", Year |-> "year"]

\* the new name of column c under the mapping m
RenameCol(m, c) == IF c \in DOMAIN m THEN m[c] ELSE c

read_csv(file) ==
    [columns |-> file.header,
     rows |-> [i \in 1..Len(file.rows) |->
                 [idx |-> i - 1,
                  cells |-> [c \in Range(file.header) |->
                               IF c = "Code" THEN ReadText(file.rows[i][c])
                               ELSE file.rows[i][c]]]]]

\* df.rename(columns=m)
Rename(df, m) ==
    [columns |-> [i \in 1..Len(df.columns) |-> RenameCol(m, df.columns[i])],
     rows |-> [i \in 1..Len(df.rows) |->
                 [idx |-> df.rows[i].idx,
                  cells |-> [c \in {RenameCol(m, d) : d \in Range(df.columns)} |->
                               df.rows[i].cells[
                                   CHOOSE d \in Range(df.columns) :
                                       RenameCol(m, d) = c]]]]]

\* a candidate test that forgets the year column
value_columns_no_year(columns) ==
    SelectSeq(columns, LAMBDA c : c \notin {"country", "code"})

\* [c for c in df.columns if c not in ["country", "code", "year"]]
value_columns(columns) ==
    SelectSeq(columns, LAMBDA c : c \notin {"country", "code", "year"})

\* the body of load_emissions: [kind |-> "ok", df] or the exception raised
load_emissions_body(file, as_text) ==
    IF ~file.exists THEN [kind |-> "FileNotFoundError"]
    ELSE
    LET df1 == Rename(read_csv(file), StdNames)
    IN  IF "code" \notin Range(df1.columns)
        THEN [kind |-> "KeyError", key |-> "code"]
        ELSE
    LET up == [i \in 1..Len(df1.rows) |->
                 [df1.rows[i] EXCEPT !.cells["code"] =
                     StrUpper(AsTypeStr(@, as_text))]]
        iso == SelectSeq(up, LAMBDA r : StrLenIs3(r.cells["code"]))
        value_cols == value_columns(df1.columns)
    IN  IF value_cols = <<>>
        THEN [kind |-> "ValueError"]
        ELSE
    LET df2 == Rename([columns |-> df1.columns, rows |-> iso],
                      [c \in {value_cols[1]} |-> "co2"])
        clean == SelectSeq(df2.rows, LAMBDA r : ~r.cells["co2"].na)
    IN  IF "year" \notin Range(df2.columns)
        THEN [kind |-> "KeyError", key |-> "year"]
        ELSE IF "country" \notin Range(df2.columns)
        THEN [kind |-> "KeyError", key |-> "country"]
        ELSE [kind |-> "ok",
              df |-> [i \in 1..Len(clean) |->
                        [idx |-> clean[i].idx,
                         country |-> clean[i].cells["country"],
                         code |-> clean[i].cells["code"].text,
                         year |-> clean[i].cells["year"],
                         co2 |-> clean[i].cells["co2"].val]]]

(***************************************************************************)
(* Sidebar: the year bounds and the highlighted years.                     *)
(***************************************************************************)
min_year(df) == CHOOSE y \in DataYears(df) : \A z \in DataYears(df) : y <= z
max_year(df) == CHOOSE y \in DataYears(df) : \A z \in DataYears(df) : y >= z

\* str(a) of a highlighted year, and int(preset) back
StrOfYear(a) ==
    CASE a = 1751 -> "1751" [] a = 1851 -> "1851" [] a = 1951 -> "1951"
      [] a = 2000 -> "2000" [] a = 2024 -> "2024"

IntOfPreset(p) ==
    CASE p = "1751" -> 1751 [] p = "1851" -> 1851 [] p = "1951" -> 1951
      [] p = "2000" -> 2000 [] p = "2024" -> 2024

preset_options(df) ==
    LET avail == SelectSeq(anos_destacados,
                    LAMBDA a : min_year(df) <= a /\ a <= max_year(df))
    IN  <<"Ninguno">> \o [i \in 1..Len(avail) |-> StrOfYear(avail[i])]

year_default(df, p) == IF p # "Ninguno" THEN IntOfPreset(p) ELSE max_year(df)

\* sorted(df_co2["country"].unique())
countries(df) ==
    SelectSeq(AllCountries,
        LAMBDA c : \E i \in 1..Len(df) : df[i].country = c)

default_countries(df) ==
    Range(SelectSeq(<<"China", "United States", "India">>,
        LAMBDA p : p \in Range(countries(df))))

default_countries_rank(df) ==
    Range(SelectSeq(<<"China", "United States", "India",
                      "European Union (27)">>,
        LAMBDA p : p \in Range(countries(df))))

(***************************************************************************)
(* Tab 1: the map and the table of the year.                               *)
(***************************************************************************)
make_co2_map(df, y) ==
    [year |-> y, data |-> GroupByCountryCode(RowsOfYear(df, y))]

year_table(df, y) ==
    [year |-> y, data |-> SortDesc(GroupByCountryCode(RowsOfYear(df, y)))]

(***************************************************************************)
(* Tab 2: comparison of countries and the Top 10 of the year.              *)
(***************************************************************************)
\* a filter that puts the bounds in order first
BetweenSorted(y, lo, hi) ==
    (IF lo <= hi THEN lo ELSE hi) <= y /\ y <= (IF lo <= hi THEN hi ELSE lo)

\* a filter that leaves the bounds out
BetweenOpen(y, lo, hi) == lo < y /\ y < hi

\* Series.between(lo, hi), both ends included
Between(y, lo, hi) == lo <= y /\ y <= hi

country_series(df, sel, lo, hi) ==
    SelectSeq(df, LAMBDA r : r.country \in sel /\ Between(r.year, lo, hi))

\* co2_global of a year: a row of groupby("year").agg(sum)
co2_global(df, y) ==
    LET g == GroupByYear(df)
    IN  g[CHOOSE i \in 1..Len(g) : g[i].year = y].co2

\* (co2 / co2_global) * 100
SharePercent(c, g) ==
    LET q == FloatDiv(c, g)
    IN  IF IsFinite(q) THEN [num |-> 100 * q.num, den |-> q.den] ELSE q

\* shares of the total of the selected rows
global_share_of_selection(df, rng) ==
    [i \in 1..Len(rng) |->
        [idx |-> i - 1, country |-> rng[i].country, code |-> rng[i].code,
         year |-> rng[i].year, co2 |-> rng[i].co2,
         co2_global |-> co2_global(rng, rng[i].year),
         share |-> SharePercent(rng[i].co2, co2_global(rng, rng[i].year))]]

\* merge(df_global, on="year", how="left") and the share column
global_share(df, rng) ==
    [i \in 1..Len(rng) |->
        [idx |-> i - 1, country |-> rng[i].country, code |-> rng[i].code,
         year |-> rng[i].year, co2 |-> rng[i].co2,
         co2_global |-> co2_global(df, rng[i].year),
         share |-> SharePercent(rng[i].co2, co2_global(df, rng[i].year))]]

compare_chart(df, sel, yr, m) ==
    LET df_range == country_series(df, sel, yr[1], yr[2])
    IN  IF df_range = <<>> \/ sel = {}
        THEN [kind |-> "warning"]
        ELSE IF m = "Participacion global (%)"
        THEN [kind |-> "share", data |-> global_share(df, df_range)]
        ELSE [kind |-> "absolute", data |-> df_range]

\* the ten smallest
top_n_ascending(df, y) ==
    HeadRows(SortAsc(GroupByCountry(RowsOfYear(df, y))), HeadN)

top_n(df, y) == HeadRows(SortDesc(GroupByCountry(RowsOfYear(df, y))), HeadN)

\* the Top 10 chart is drawn in the else branch of the comparison
top_chart(df, sel, yr, y) ==
    LET df_range == country_series(df, sel, yr[1], yr[2])
    IN  IF df_range = <<>> \/ sel = {}
        THEN [kind |-> "none"]
        ELSE [kind |-> "top", year |-> y, data |-> top_n(df, y)]

(***************************************************************************)
(* Tab 3: global totals.                                                   *)
(***************************************************************************)
\* groupby("year") leaves the years ascending; sort_values("year") keeps it
global_chart(df) == [kind |-> "global", data |-> GroupByYear(df)]

(***************************************************************************)
(* Tab 4: rank evolution and the Lorenz curve.                             *)
(***************************************************************************)
\* rank(ascending=False, method="min") of the value v in its group
RankMin(group, v) ==
    LET s == SortDesc(group)
    IN  CHOOSE p \in 1..Len(s) :
            s[p].co2 = v /\ \A q \in 1..(p - 1) : s[q].co2 # v

rank_evol(df, lo, hi) ==
    LET g == GroupByYearCountry(
                SelectSeq(df, LAMBDA r : Between(r.year, lo, hi)))
    IN  [i \in 1..Len(g) |->
            [idx |-> g[i].idx, year |-> g[i].year, country |-> g[i].country,
             co2 |-> g[i].co2,
             rank |-> RankMin(RowsOfYear(g, g[i].year), g[i].co2)]]

\* a ranking among the selected countries only
rank_sel_among_selected(df, sel, lo, hi) ==
    rank_evol(SelectSeq(df, LAMBDA r : r.country \in sel), lo, hi)

rank_sel(df, sel, lo, hi) ==
    SelectSeq(rank_evol(df, lo, hi), LAMBDA r : r.country \in sel)

bump_chart(df, sel, yr) ==
    LET df_rank_sel == rank_sel(df, sel, yr[1], yr[2])
    IN  IF df_rank_sel = <<>> \/ sel = {}
        THEN [kind |-> "warning"]
        ELSE [kind |-> "bump", data |-> df_rank_sel]

\* pd.Series(range(1, n + 1), dtype=float) / n, assigned as a column: the
\* series has the labels 0..n-1 and the assignment aligns on the labels
country_share(label, n) ==
    IF label \in 0..(n - 1) THEN FloatDiv(label + 1, n) ELSE NaN

lorenz_rows(df, y) ==
    LET df_year_all == GroupByCountry(RowsOfYear(df, y))
        pos == SortAsc(SelectSeq(df_year_all, LAMBDA r : r.co2 > 0))
        n == Len(pos)
    IN  [i \in 1..n |->
            [idx |-> pos[i].idx, country |-> pos[i].country,
             co2 |-> pos[i].co2,
             country_share |-> country_share(pos[i].idx, n),
             emissions_cum_share |->
                 FloatDiv(SumCo2(SubSeq(pos, 1, i)), SumCo2(pos))]]

lorenz_chart(df, y) ==
    LET rows == lorenz_rows(df, y)
    IN  IF rows = <<>> THEN [kind |-> "info"]
        ELSE [kind |-> "lorenz", year |-> y, data |-> rows]

(***************************************************************************)
(* One run of main() with the widget values of the next state.             *)
(***************************************************************************)
Rerun ==
    /\ fig_map' = make_co2_map(df_co2', year')
    /\ df_year' = year_table(df_co2', year')
    /\ fig_comp' = compare_chart(df_co2', selected', year_range', metric')
    /\ fig_top' = top_chart(df_co2', selected', year_range', year')
    /\ fig_global' = global_chart(df_co2')
    /\ fig_bump' = bump_chart(df_co2', selected_rank', year_range_rank')
    /\ fig_lorenz' = lorenz_chart(df_co2', year')


(***************************************************************************)
(* Emission tables of the model: 1 to MaxRows rows over a few entities,    *)
(* two years and the values 0..MaxCo2, in the order of the source file (by *)
(* entity, then year).  Rows may repeat an (entity, year) pair.            *)
(***************************************************************************)
Entities == <<[country |-> "Brazil", code |-> "BRA"],
              [country |-> "China", code |-> "CHN"],
              [country |-> "India", code |-> "IND"]>>
\* the same with a second code for one country
EntitiesCodes == <<[country |-> "Brazil", code |-> "BRA"],
                   [country |-> "China", code |-> "CHN"],
                   [country |-> "China", code |-> "HKG"],
                   [country |-> "India", code |-> "IND"]>>
RowYears == <<1951, 2000>>
\* years a caller asks for: the years of the rows and a year without rows
CallYears == {1951, 1960, 2000}

NumVals == MaxCo2 + 1

RowKind(ents, k) ==
    LET e == ents[((k - 1) \div (Len(RowYears) * NumVals)) + 1]
        y == RowYears[(((k - 1) \div NumVals) % Len(RowYears)) + 1]
    IN  [country |-> e.country, code |-> e.code, year |-> y,
         co2 |-> (k - 1) % NumVals]

RECURSIVE NonDecreasing(_, _, _)
NonDecreasing(n, lo, hi) ==
    IF n = 0 THEN {<<>>}
    ELSE UNION {{<<k>> \o t : t \in NonDecreasing(n - 1, k, hi)} : k \in lo..hi}

TableOf(ents, ks) ==
    [i \in 1..Len(ks) |->
        [idx |-> i - 1, country |-> RowKind(ents, ks[i]).country,
         code |-> RowKind(ents, ks[i]).code, year |-> RowKind(ents, ks[i]).year,
         co2 |-> RowKind(ents, ks[i]).co2]]

TablesOver(ents) ==
    {TableOf(ents, ks) :
        ks \in UNION {NonDecreasing(n, 1, Len(ents) * Len(RowYears) * NumVals) :
                        n \in 1..MaxRows}}

Tables == TablesOver(Entities)
TablesCodes == TablesOver(EntitiesCodes)

\* one row per country C01, C02, ... in the year 2000, with co2 1 or 2
TopTables ==
    UNION {{[i \in 1..k |->
                [idx |-> i - 1, country |-> AllCountries[i + 1],
                 code |-> AllCodes[i + 1], year |-> 2000, co2 |-> v[i]]] :
            v \in [1..k -> {1, 2}]} : k \in 0..TopCountries}

\* tables of the running app: they span the default start of the range
\* sliders, so that every slider of main() is well formed
Row(c, k, y, v) == [idx |-> 0, country |-> c, code |-> k, year |-> y, co2 |-> v]

AppTables ==
    {RangeIndex(<<Row("China", "CHN", 1951, 1), Row("China", "CHN", 2000, 2),
                  Row("India", "IND", 2000, 1)>>),
     RangeIndex(<<Row("Brazil", "BRA", 1951, 0), Row("Brazil", "BRA", 2000, 2),
                  Row("China", "CHN", 1951, 0), Row("China", "CHN", 2000, 2)>>),
     RangeIndex(<<Row("Brazil", "BRA", 2000, 1), Row("India", "IND", 1951, 2),
                  Row("India", "IND", 2000, 1)>>)}

(***************************************************************************)
(* The first run of main(): load_emissions has returned df_co2 and every   *)
(* widget holds its default.                                               *)
(***************************************************************************)
Figures ==
    /\ fig_map = make_co2_map(df_co2, year)
    /\ df_year = year_table(df_co2, year)
    /\ fig_comp = compare_chart(df_co2, selected, year_range, metric)
    /\ fig_top = top_chart(df_co2, selected, year_range, year)
    /\ fig_global = global_chart(df_co2)
    /\ fig_bump = bump_chart(df_co2, selected_rank, year_range_rank)
    /\ fig_lorenz = lorenz_chart(df_co2, year)

FirstRun ==
    /\ csv = [exists |-> TRUE]
    /\ na_as_text = TRUE
    /\ cache = [full |-> TRUE, df |-> df_co2]
    /\ load_out = [kind |-> "ok", df |-> df_co2]
    /\ preset = "Ninguno"
    /\ year = max_year(df_co2)
    /\ selected = default_countries(df_co2)
    /\ year_range = <<RangeDefaultLo, max_year(df_co2)>>
    /\ metric = "Emisiones absolutas"
    /\ selected_rank = default_countries_rank(df_co2)
    /\ year_range_rank = <<RangeDefaultLo, max_year(df_co2)>>
    /\ Figures
    /\ call = [fn |-> "none", done |-> TRUE, out |-> [kind |-> "none"]]

(***************************************************************************)
(* Widget changes.  Every change reruns main().                            *)
(***************************************************************************)
SliderChoices(df) ==
    {y \in CallYears : min_year(df) <= y /\ y <= max_year(df)}

RangeChoices(df) ==
    {<<lo, hi>> \in Range(RowYears) \X Range(RowYears) :
        min_year(df) <= lo /\ lo <= hi /\ hi <= max_year(df)}

\* the year slider has no key: a new default makes it a new widget, which
\* starts at its default
SetPreset ==
    \E p \in Range(preset_options(df_co2)) :
        /\ p # preset
        /\ preset' = p
        /\ year' = year_default(df_co2, p)
        /\ UNCHANGED <<loadVars, df_co2, selected, year_range, metric,
                       selected_rank, year_range_rank, call>>
        /\ Rerun

SetYear ==
    \E y \in SliderChoices(df_co2) :
        /\ y # year
        /\ year' = y
        /\ UNCHANGED <<loadVars, df_co2, preset, selected, year_range, metric,
                       selected_rank, year_range_rank, call>>
        /\ Rerun

SetSelected ==
    \E sel \in SUBSET Range(countries(df_co2)) :
        /\ sel # selected
        /\ selected' = sel
        /\ UNCHANGED <<loadVars, df_co2, preset, year, year_range, metric,
                       selected_rank, year_range_rank, call>>
        /\ Rerun

SetYearRange ==
    \E yr \in RangeChoices(df_co2) :
        /\ yr # year_range
        /\ year_range' = yr
        /\ UNCHANGED <<loadVars, df_co2, preset, year, selected, metric,
                       selected_rank, year_range_rank, call>>
        /\ Rerun

SetMetric ==
    \E m \in {"Emisiones absolutas", "Participacion global (%)"} :
        /\ m # metric
        /\ metric' = m
        /\ UNCHANGED <<loadVars, df_co2, preset, year, selected, year_range,
                       selected_rank, year_range_rank, call>>
        /\ Rerun

SetSelectedRank ==
    \E sel \in SUBSET Range(countries(df_co2)) :
        /\ sel # selected_rank
        /\ selected_rank' = sel
        /\ UNCHANGED <<loadVars, df_co2, preset, year, selected, year_range,
                       metric, year_range_rank, call>>
        /\ Rerun

SetYearRangeRank ==
    \E yr \in RangeChoices(df_co2) :
        /\ yr # year_range_rank
        /\ year_range_rank' = yr
        /\ UNCHANGED <<loadVars, df_co2, preset, year, selected, year_range,
                       metric, selected_rank, call>>
        /\ Rerun


(***************************************************************************)
(* Direct evaluation of the views of main() on a table: the arguments are  *)
(* drawn in the initial state and the action evaluates the view.           *)
(***************************************************************************)
NoFigure == [kind |-> "none"]

Idle ==
    /\ csv = [exists |-> TRUE]
    /\ na_as_text = TRUE
    /\ cache = [full |-> TRUE, df |-> df_co2]
    /\ load_out = [kind |-> "ok", df |-> df_co2]
    /\ preset = "Ninguno"
    /\ year = 0
    /\ selected = {}
    /\ year_range = <<0, 0>>
    /\ metric = "Emisiones absolutas"
    /\ selected_rank = {}
    /\ year_range_rank = <<0, 0>>
    /\ fig_map = NoFigure /\ df_year = NoFigure /\ fig_comp = NoFigure
    /\ fig_top = NoFigure /\ fig_global = NoFigure /\ fig_bump = NoFigure
    /\ fig_lorenz = NoFigure

EvalDone(out) ==
    /\ ~call.done
    /\ call' = [call EXCEPT !.done = TRUE, !.out = out]
    /\ UNCHANGED <<loadVars, df_co2, widgetVars, figVars>>

YearArgs(fn) ==
    {[fn |-> fn, year |-> y, done |-> FALSE, out |-> NoFigure] : y \in CallYears}

RangeArgs(fn) ==
    {[fn |-> fn, sel |-> sel, lo |-> lo, hi |-> hi, done |-> FALSE,
      out |-> NoFigure] :
        sel \in SUBSET {Entities[i].country : i \in 1..Len(Entities)}, lo \in Range(RowYears),
        hi \in Range(RowYears)}

CompareArgs(metrics) ==
    {[fn |-> "compare", sel |-> a.sel, lo |-> a.lo, hi |-> a.hi, metric |-> m,
      done |-> FALSE, out |-> NoFigure] :
        a \in RangeArgs("compare"), m \in metrics}

EvalLorenz == call.fn = "lorenz" /\ EvalDone(lorenz_chart(df_co2, call.year))

EvalYearTable ==
    /\ call.fn = "year_table"
    /\ EvalDone([kind |-> "year", map |-> make_co2_map(df_co2, call.year),
                 table |-> year_table(df_co2, call.year)])

EvalTopN ==
    /\ call.fn = "top_n"
    /\ EvalDone([kind |-> "top", year |-> call.year,
                 data |-> top_n(df_co2, call.year)])

EvalCompare ==
    /\ call.fn = "compare"
    /\ EvalDone(compare_chart(df_co2, call.sel, <<call.lo, call.hi>>,
                              call.metric))

EvalRank ==
    /\ call.fn = "rank"
    /\ EvalDone(bump_chart(df_co2, call.sel, <<call.lo, call.hi>>))

\* the Lorenz curve of a year
InitLorenz == df_co2 \in TablesCodes /\ Idle /\ call \in YearArgs("lorenz")
SpecLorenz == InitLorenz /\ [][EvalLorenz]_vars

\* the map and the table of a year
InitYearTable == df_co2 \in TablesCodes /\ Idle /\ call \in YearArgs("year_table")
SpecYearTable == InitYearTable /\ [][EvalYearTable]_vars

\* the Top 10 of a year
InitTopN ==
    df_co2 \in (TablesCodes \cup TopTables) /\ Idle /\ call \in YearArgs("top_n")
SpecTopN == InitTopN /\ [][EvalTopN]_vars

\* the comparison of countries, in both metrics
InitCompare ==
    /\ df_co2 \in Tables /\ Idle
    /\ call \in CompareArgs({"Emisiones absolutas", "Participacion global (%)"})
SpecCompare == InitCompare /\ [][EvalCompare]_vars

\* the rank evolution
InitRank == df_co2 \in Tables /\ Idle /\ call \in RangeArgs("rank")
SpecRank == InitRank /\ [][EvalRank]_vars

\* both range filters
InitRange ==
    /\ df_co2 \in Tables /\ Idle
    /\ call \in (CompareArgs({"Emisiones absolutas"}) \cup
                 RangeArgs("rank"))
NextRange == EvalCompare \/ EvalRank
SpecRange == InitRange /\ [][NextRange]_vars

(***************************************************************************)
(* The running app.                                                        *)
(***************************************************************************)
Init == df_co2 \in AppTables /\ FirstRun
Next ==
    \/ SetPreset
    \/ SetYear
    \/ SetSelected
    \/ SetYearRange
    \/ SetMetric
    \/ SetSelectedRank
    \/ SetYearRangeRank
Spec == Init /\ [][Next]_vars

(***************************************************************************)
(* Loading: main() calls load_emissions(CSV_PATH) on every run, through    *)
(* st.cache_data, which keeps the table a call returned.                   *)
(***************************************************************************)
RECURSIVE DistinctSeqs(_)
DistinctSeqs(n) ==
    IF n = 0 THEN {<<>>}
    ELSE UNION {{h \o <<c>> : c \in ColNames \ Range(h)} :
                    h \in DistinctSeqs(n - 1)}

Headers == UNION {DistinctSeqs(n) : n \in 1..MaxCols}

CsvRows ==
    [Entity : {"Africa"}, Code : CodeTexts, Year : {2000},
     emissions : {[na |-> TRUE, val |-> 0], [na |-> FALSE, val |-> 5]},
     other : {[na |-> FALSE, val |-> 9]}]

\* the rows of a file with header h: the cells of a column that h does not
\* have are not in the file, and are left blank
CsvRowsFor(h) ==
    {r \in CsvRows :
        /\ "Code" \notin Range(h) => r.Code = <<>>
        /\ "emissions" \notin Range(h) => r.emissions.na}

\* the file at csv_path: missing, or a header and up to MaxCsvRows rows
IsCsvFile(file) ==
    \/ file = [exists |-> FALSE, header |-> <<>>, rows |-> <<>>]
    \/ \E h \in Headers, n \in 0..MaxCsvRows :
          \E r \in [1..n -> CsvRowsFor(h)] :
              file = [exists |-> TRUE, header |-> h, rows |-> r]

NotCalled == [kind |-> "not called"]

InitLoad ==
    /\ IsCsvFile(csv)
    /\ na_as_text \in BOOLEAN
    /\ cache = [full |-> FALSE, df |-> <<>>]
    /\ load_out = NotCalled
    /\ df_co2 = <<>>
    /\ preset = "Ninguno"
    /\ year = 0
    /\ selected = {}
    /\ year_range = <<0, 0>>
    /\ metric = "Emisiones absolutas"
    /\ selected_rank = {}
    /\ year_range_rank = <<0, 0>>
    /\ fig_map = NoFigure /\ df_year = NoFigure /\ fig_comp = NoFigure
    /\ fig_top = NoFigure /\ fig_global = NoFigure /\ fig_bump = NoFigure
    /\ fig_lorenz = NoFigure
    /\ call = [fn |-> "none", done |-> TRUE, out |-> NoFigure]

\* a call that runs the body; a table it returns is cached and bound to df_co2
load_emissions ==
    /\ ~cache.full
    /\ load_out' = load_emissions_body(csv, na_as_text)
    /\ cache' = IF load_out'.kind = "ok"
                THEN [full |-> TRUE, df |-> load_out'.df] ELSE cache
    /\ df_co2' = IF load_out'.kind = "ok" THEN load_out'.df ELSE df_co2
    /\ UNCHANGED <<csv, na_as_text, widgetVars, figVars, call>>

\* a call served from the cache
load_cached ==
    /\ cache.full
    /\ load_out' = [kind |-> "ok", df |-> cache.df]
    /\ df_co2' = cache.df
    /\ UNCHANGED <<csv, na_as_text, cache, widgetVars, figVars, call>>

NextLoad == load_emissions \/ load_cached
SpecLoad == InitLoad /\ [][NextLoad]_vars

(***************************************************************************)
(* Properties.  The sums below are taken over the rows of df_co2 directly. *)
(***************************************************************************)
RECURSIVE SumRows(_, _)
SumRows(df, S) ==
    IF S = {} THEN 0
    ELSE LET i == CHOOSE j \in S : TRUE
         IN  df[i].co2 + SumRows(df, S \ {i})

RowsAt(c, y) ==
    {i \in 1..Len(df_co2) : df_co2[i].country = c /\ df_co2[i].year = y}
CountryTotal(c, y) == SumRows(df_co2, RowsAt(c, y))
CountriesAt(y) == {df_co2[i].country : i \in {j \in 1..Len(df_co2) : df_co2[j].year = y}}
YearTotal(y) == SumRows(df_co2, {i \in 1..Len(df_co2) : df_co2[i].year = y})

Evaluated(fn) == call.fn = fn /\ call.done

\* C1: the Lorenz curve of a year has one point per country with a positive
\* total, in ascending order of the totals; the point at position i of n
\* has country share i/n and emissions share (sum of the first i totals)
\* over (sum of all totals).
C1_LorenzPoints ==
    (Evaluated("lorenz") /\ call.out.kind = "lorenz") =>
        LET d == call.out.data
            n == Len(d)
        IN  /\ {d[i].country : i \in 1..n} =
                   {c \in CountriesAt(call.year) : CountryTotal(c, call.year) > 0}
            /\ n = Cardinality({d[i].country : i \in 1..n})
            /\ \A i \in 1..n :
                 /\ d[i].co2 = CountryTotal(d[i].country, call.year)
                 /\ i < n => d[i].co2 <= d[i + 1].co2
                 /\ IsFinite(d[i].country_share)
                 /\ d[i].country_share.num * n = i * d[i].country_share.den
                 /\ IsFinite(d[i].emissions_cum_share)
                 /\ d[i].emissions_cum_share.num * SumRows(d, 1..n) =
                        SumRows(d, 1..i) * d[i].emissions_cum_share.den

Loaded == load_out.kind = "ok"
LoadedIdx == {load_out.df[i].idx : i \in 1..Len(load_out.df)}
HasValue(i) ==
    LET vc == SelectSeq(csv.header, LAMBDA c : c \notin {"Entity", "Code", "Year"})
    IN  ~csv.rows[i][vc[1]].na
CodeMissing(i) == csv.rows[i].Code \in NaTexts

\* C3: among the source rows with a value, a row is kept if and only if
\* its Code is present and, in upper case, three characters long; every kept
\* row carries that upper case code.
C3_KeptIffIso3 ==
    Loaded =>
        /\ \A i \in 1..Len(csv.rows) :
             HasValue(i) =>
                ((i - 1) \in LoadedIdx <=>
                    (~CodeMissing(i) /\ Len(Upper(csv.rows[i].Code)) = 3))
        /\ \A k \in 1..Len(load_out.df) :
             /\ Len(load_out.df[k].code) = 3
             /\ load_out.df[k].code = Upper(load_out.df[k].code)
             /\ load_out.df[k].code = Upper(csv.rows[load_out.df[k].idx + 1].Code)

Candidates == Range(csv.header) \ {"Entity", "Code", "Year"}
Called == load_out.kind # "not called"

\* C4 as claimed: an existing file whose header leaves no candidate column
\* fails with the schema error (ValueError), whatever else the header
\* lacks; a missing file fails with FileNotFoundError.
C4_SchemaErrorWheneverNoCandidate ==
    Called =>
        /\ (csv.exists /\ Candidates = {}) => load_out.kind = "ValueError"
        /\ ~csv.exists => load_out.kind = "FileNotFoundError"

\* C4 as amended: an existing file whose header has the Code column and
\* leaves no candidate column fails with the schema error, also when Entity
\* or Year is missing; a header without Code fails with a KeyError on "code"
\* before the candidates are looked at; a missing file fails with
\* FileNotFoundError.
C4_SchemaErrorWhenCodePresent ==
    Called =>
        /\ (csv.exists /\ Candidates = {} /\ "Code" \in Range(csv.header))
              => load_out.kind = "ValueError"
        /\ (csv.exists /\ "Code" \notin Range(csv.header))
              => load_out = [kind |-> "KeyError", key |-> "code"]
        /\ ~csv.exists => load_out.kind = "FileNotFoundError"

C4_Witness ==
    /\ Called
    /\ csv.exists
    /\ Range(csv.header) = {"Code", "Year"}
    /\ Len(csv.rows) > 0
    /\ load_out.kind = "ValueError"

(***************************************************************************)
(* Properties of the views.                                                *)
(***************************************************************************)
\* C5: in the rank evolution, every requested country with rows in a year
\* of the range has one row for that year; its co2 is the country's total
\* of the year and its rank is 1 + the number of countries of the whole
\* table whose total of that year is strictly greater.
C5_RankIsOnePlusGreater ==
    Evaluated("rank") =>
        LET d == IF call.out.kind = "bump" THEN call.out.data ELSE <<>>
            want == {<<c, y>> \in call.sel \X DataYears(df_co2) :
                        call.lo <= y /\ y <= call.hi /\ RowsAt(c, y) # {}}
        IN  /\ {<<d[i].country, d[i].year>> : i \in 1..Len(d)} = want
            /\ Len(d) = Cardinality(want)
            /\ \A i \in 1..Len(d) :
                 /\ d[i].co2 = CountryTotal(d[i].country, d[i].year)
                 /\ d[i].rank = 1 + Cardinality(
                        {c \in CountriesAt(d[i].year) :
                            CountryTotal(c, d[i].year) > d[i].co2})

\* two countries tie for rank 1 and the third gets rank 3, while a country
\* that is not requested outranks a requested one
C5_Witness ==
    /\ Evaluated("rank")
    /\ call.out.kind = "bump"
    /\ \E i \in 1..Len(call.out.data) :
         /\ call.out.data[i].rank = 3
         /\ Cardinality({c \in CountriesAt(call.out.data[i].year) :
                CountryTotal(c, call.out.data[i].year) >
                    call.out.data[i].co2}) = 2
         /\ \E c \in CountriesAt(call.out.data[i].year) \ call.sel :
                CountryTotal(c, call.out.data[i].year) > call.out.data[i].co2

RAdd(a, b) == [num |-> a.num * b.den + b.num * a.den, den |-> a.den * b.den]

RECURSIVE ShareSum(_)
ShareSum(rows) ==
    IF rows = <<>> THEN [num |-> 0, den |-> 1]
    ELSE RAdd(Head(rows).share, ShareSum(Tail(rows)))

\* C6: in the share metric every row's share is 100 * co2 over the total
\* of all rows of the table for the row's year, whatever the selection and
\* the range; it is nan when that total is zero; and when all countries of
\* a year are selected, the shares of a year with a non-zero total sum to
\* 100.  The comparison never ends in an error.
C6_ShareOfGlobalTotal ==
    Evaluated("compare") =>
        /\ call.out.kind \in {"warning", "absolute", "share"}
        /\ call.out.kind = "share" =>
             LET d == call.out.data
             IN  /\ \A i \in 1..Len(d) :
                      IF YearTotal(d[i].year) = 0
                      THEN IsNaN(d[i].share)
                      ELSE /\ IsFinite(d[i].share)
                           /\ d[i].share.num * YearTotal(d[i].year) =
                                  100 * d[i].co2 * d[i].share.den
                 /\ \A y \in DataYears(df_co2) :
                      (/\ CountriesAt(y) \subseteq call.sel
                       /\ call.lo <= y /\ y <= call.hi
                       /\ YearTotal(y) # 0)
                      => LET sum == ShareSum(SelectSeq(d, LAMBDA r : r.year = y))
                         IN  sum.num = 100 * sum.den

\* a selection that leaves a country out, a year with a zero total and a
\* year with a non-zero total
C6_Witness ==
    /\ Evaluated("compare")
    /\ call.out.kind = "share"
    /\ \E i \in 1..Len(call.out.data) : IsNaN(call.out.data[i].share)
    /\ \E i \in 1..Len(call.out.data) :
         /\ IsFinite(call.out.data[i].share)
         /\ call.out.data[i].co2 > 0
         /\ ~(CountriesAt(call.out.data[i].year) \subseteq call.sel)

\* C7: the Top 10 of a year has min(10, number of countries with rows in
\* the year) rows, one per country name, each with the country's total over
\* all its rows and codes of the year, in non-increasing order, and no
\* country left out has a greater total than a country in it.
C7_TopTen ==
    Evaluated("top_n") =>
        LET d == call.out.data
            cs == CountriesAt(call.year)
            inTop == {d[i].country : i \in 1..Len(d)}
        IN  /\ Len(d) = (IF Cardinality(cs) < 10 THEN Cardinality(cs) ELSE 10)
            /\ Cardinality(inTop) = Len(d)
            /\ inTop \subseteq cs
            /\ \A i \in 1..Len(d) :
                 /\ d[i].co2 = CountryTotal(d[i].country, call.year)
                 /\ i < Len(d) => d[i].co2 >= d[i + 1].co2
                 /\ \A c \in cs \ inTop : CountryTotal(c, call.year) <= d[i].co2

\* more than ten countries, and a country with co2 1 in the Top 10
C7_Witness ==
    /\ Evaluated("top_n")
    /\ Cardinality(CountriesAt(call.year)) > 10
    /\ Len(call.out.data) = 10
    /\ call.out.data[10].co2 = 1
    /\ call.out.data[1].co2 = 2

PairsAt(y) ==
    {<<df_co2[i].country, df_co2[i].code>> :
        i \in {j \in 1..Len(df_co2) : df_co2[j].year = y}}
PairTotal(p, y) ==
    SumRows(df_co2, {i \in 1..Len(df_co2) :
        df_co2[i].country = p[1] /\ df_co2[i].code = p[2] /\ df_co2[i].year = y})

\* C8: the table of a year has exactly one row per (country, code) pair
\* with rows in the year, with the sum of the pair's rows of the year, in
\* non-increasing order of co2; the map of the year has the same rows.
C8_YearTotals ==
    Evaluated("year_table") =>
        LET d == call.out.table.data
            m == call.out.map.data
        IN  /\ {<<d[i].country, d[i].code>> : i \in 1..Len(d)} = PairsAt(call.year)
            /\ Len(d) = Cardinality(PairsAt(call.year))
            /\ \A i \in 1..Len(d) :
                 /\ d[i].co2 = PairTotal(<<d[i].country, d[i].code>>, call.year)
                 /\ i < Len(d) => d[i].co2 >= d[i + 1].co2
            /\ {<<m[i].country, m[i].code, m[i].co2>> : i \in 1..Len(m)} =
                   {<<d[i].country, d[i].code, d[i].co2>> : i \in 1..Len(d)}
            /\ Len(m) = Len(d)

\* a pair with two rows in the year, and a pair with rows in another year
\* only
C8_Witness ==
    /\ Evaluated("year_table")
    /\ \E i \in 1..Len(df_co2), j \in 1..Len(df_co2) :
         /\ i # j
         /\ df_co2[i].year = call.year /\ df_co2[j].year = call.year
         /\ df_co2[i].country = df_co2[j].country
         /\ df_co2[i].code = df_co2[j].code
         /\ df_co2[i].co2 > 0 /\ df_co2[j].co2 > 0
    /\ \E i \in 1..Len(df_co2) :
         <<df_co2[i].country, df_co2[i].code>> \notin PairsAt(call.year)

Matching ==
    {i \in 1..Len(df_co2) :
        /\ df_co2[i].country \in call.sel
        /\ call.lo <= df_co2[i].year /\ df_co2[i].year <= call.hi}

\* the k-th matching row of the table
KthMatching(k) ==
    CHOOSE i \in Matching : Cardinality({j \in Matching : j <= i}) = k

\* C9: the comparison shows exactly the rows of the table whose country is
\* selected and whose year lies in [lo, hi], both ends included, in the
\* table's order; when there is none (an empty selection included) it ends
\* in the warning, not in an error.
C9_SeriesIsExactFilter ==
    Evaluated("compare") =>
        IF Matching = {}
        THEN call.out = [kind |-> "warning"]
        ELSE /\ call.out.kind =
                    (IF call.metric = "Emisiones absolutas"
                     THEN "absolute" ELSE "share")
             /\ Len(call.out.data) = Cardinality(Matching)
             /\ \A k \in 1..Len(call.out.data) :
                  LET r == call.out.data[k]
                      src == df_co2[KthMatching(k)]
                  IN  /\ r.country = src.country /\ r.code = src.code
                      /\ r.year = src.year /\ r.co2 = src.co2
                      /\ call.out.kind = "absolute" => r.idx = src.idx

\* a one-year range that keeps rows of that year and drops a row of a
\* selected country in the other year
C9_Witness ==
    /\ Evaluated("compare")
    /\ call.lo = call.hi
    /\ call.out.kind = "absolute"
    /\ Len(call.out.data) = 2
    /\ \E i \in 1..Len(df_co2) :
         df_co2[i].country \in call.sel /\ df_co2[i].year # call.lo

(***************************************************************************)
(* Properties of the running app.                                          *)
(***************************************************************************)
\* C10: after every run the map, the table of the year and the Top 10 are
\* all drawn, for the year of the sidebar, whatever the comparison
\* selection and its year range are.
C10_YearDrivesMapTableTop ==
    /\ fig_map.year = year
    /\ df_year.year = year
    /\ fig_top.kind = "top"
    /\ fig_top.year = year

=============================================================================
